---- MODULE Spec2Model ----
(***************************************************************************)
(* Model of dragonmux/usb-serial-conduit: the pool-allocated reference     *)
(* counted cell (ref_counted.rs), the UnsafeRefCell (unsafe_ref_cell.rs),  *)
(* the RunTwo combinator (run_multiple.rs), the CDC-ACM handler (usb.rs)   *)
(* and the UART task (serial.rs).                                          *)
(*                                                                         *)
(* Six specifications share the variables:                                 *)
(*   PoolSpec     RcPool / Rc / RefMut / UnsafeRefCell operations          *)
(*   JoinSpec     RunTwo over two sub-futures that become ready on their   *)
(*                n-th poll                                                *)
(*   BridgeSpec   SerialHandler control requests, SerialHandlerInner::run  *)
(*                polled as a future of its own, and serialTask            *)
(*   UsbTaskSpec  usbTask: RunTwo::new(usbDevice.run(), inner.run())       *)
(*   CodecSpec    SerialEncoding::fromData and toData over buffers         *)
(*   ServingSpec  the bridge after usbTask's setup, run polled on its own  *)
(***************************************************************************)
EXTENDS Integers, Sequences, FiniteSets, TLC

\* ------------------------------------------------------------------ bounds
MaxCap == 2
MaxHandles == 3
MaxAllocCalls == 3
MaxGuards == 2
CountBits == 2
MaxNeed == 4
MaxCycles == 8
MaxAccepted == 2
MaxData == 8

\* byte values of the buffers given to fromData: 1 is a stop-bits and a
\* parity value, 4 a parity value only, 100 neither
DataBytes == {1, 4, 100}

\* usize::MAX of the reference counter, for a CountBits wide usize
MaxCount == 2 ^ CountBits - 1

\* const UNUSED: BorrowCounter = 0
UNUSED == 0

VARIABLES
    subject,      \* the type exercised: "RcPool" or "UnsafeRefCell"
    N,            \* RcPool<T, N>: the capacity
    allocated,    \* RcPool::allocated
    pool,         \* RcPool::pool, slot index -> RcInner (and payload state)
    handles,      \* live Rc handles: id -> [slot, gen], NoHandle when not live
    mutGuards,    \* handle id -> number of live RefMut obtained from it
    sharedRefs,   \* handle id -> number of live Ref obtained from it
    allocLog,     \* results of the calls to alloc, in call order
    lastBorrow,   \* result of the latest tryBorrowMut / borrowMut
    cellBorrow,   \* UnsafeRefCell::borrow (the counter)
    cellMuts,     \* live RefMut of the UnsafeRefCell
    cellRefs,     \* live Ref of the UnsafeRefCell
    debug,        \* build profile: debug assertions and overflow checks on
    poolPanic     \* a panic!() was reached

VARIABLES
    future1,      \* RunTwo::future1: "Future" or "Done"
    future2,      \* RunTwo::future2: "Future" or "Done"
    need1,        \* the poll of the first sub-future that returns Ready (0: none)
    need2,        \* the poll of the second sub-future that returns Ready (0: none)
    polls1,       \* times the first sub-future was polled
    polls2,       \* times the second sub-future was polled
    cycle,        \* times RunTwo was polled
    result,       \* what the latest RunTwo::poll returned
    doneAt,       \* <<cycle at which future1 became Done, same for future2>>
    lastPoll      \* the latest RunTwo::poll: who was pending before, who was polled

joinVars == <<future1, future2, need1, need2, polls1, polls2, cycle, result,
              doneAt, lastPoll>>

VARIABLES
    controlInterface,     \* SerialHandlerInner::controlInterface
    encoding,             \* SerialHandlerInner::encoding (the RefCell's value)
    encodingUpdate,       \* SerialHandlerInner::encodingUpdate: <<>> or <<value>>
    stateUpdate,          \* SerialHandlerInner::stateUpdate: <<>> or <<value>>
    notificationEndpoint, \* the OnceCell: "unset" or "set"
    endpointBorrow,       \* borrow flag of the RefCell in notificationEndpoint
    receiveChannel,       \* RECEIVE_CHANNEL: the queued ReceiveRequests
    run,                  \* where the future of SerialHandlerInner::run is suspended
    endpoint,             \* the interrupt IN endpoint: transfer state and packet
    config,               \* serialTask: the UartConfig it keeps
    applied,              \* the configuration last given to Uart::set_config
    fatal,                \* the panic that halted the firmware, "" while it runs
    pendingSetup,         \* control transfer the USB device has yet to dispatch
    acceptedLog,          \* records of the accepted SetLineCoding, in order
    forwardedLog,         \* records of the ChangeEncoding sent, in order
    registered,           \* usbTask has handed the handler to the builder
    lastCall,             \* the latest control_in / control_out and its outcome
    callContext           \* the state that call was made in, and its data stage

VARIABLES
    transmitChannel   \* TRANSMIT_CHANNEL, UART task to bridge: the messages queued

VARIABLES
    transmitEndpoint, \* SerialHandlerInner::transmitEndpoint, the OnceCell
    receiveEndpoint   \* SerialHandlerInner::receiveEndpoint, the OnceCell

VARIABLES
    buffer,       \* the buffer given to SerialEncoding::fromData
    decoded,      \* what fromData returned for it, <<>> before the call
    written       \* what toData returned for the record, <<>> before the call

bridgeVars == <<controlInterface, encoding, encodingUpdate, stateUpdate,
                notificationEndpoint, endpointBorrow, receiveChannel, run, endpoint,
                config, applied, fatal, pendingSetup, acceptedLog, forwardedLog,
                registered, lastCall, callContext>>

poolVars == <<subject, N, allocated, pool, handles, mutGuards, sharedRefs, allocLog,
              lastBorrow, cellBorrow, cellMuts, cellRefs, debug, poolPanic>>

codecVars == <<buffer, decoded, written>>

\* TransmitRequest has no variant and serialTask never sends: no action
\* writes the channel
channelVars == <<transmitChannel>>

endpointVars == <<transmitEndpoint, receiveEndpoint>>

vars == <<poolVars, joinVars, bridgeVars, codecVars, channelVars, endpointVars>>

\* ------------------------------------------------------- ref_counted.rs
Slots == 0 .. (MaxCap - 1)
HandleIds == 1 .. MaxHandles

NoHandle == [slot |-> -1, gen |-> 0]

\* MaybeUninit::uninit()
UninitSlot == [st |-> "uninit", refCount |-> 0, borrowCount |-> 0, gen |-> 0]

LiveIds == {h \in HandleIds : handles[h] # NoHandle}

RECURSIVE SumOver(_, _)
SumOver(f, S) == IF S = {} THEN 0
                 ELSE LET x == CHOOSE y \in S : TRUE
                      IN  f[x] + SumOver(f, S \ {x})

\* Ref and RefMut values alive, over all handles
LiveGuards == SumOver(mutGuards, HandleIds) + SumOver(sharedRefs, HandleIds)
FreeIds == HandleIds \ LiveIds
NewId == CHOOSE h \in FreeIds : \A g \in FreeIds : h <= g

\* RcPool::new
PoolNew(n) ==
    /\ N = n
    /\ allocated = 0
    /\ pool = [s \in Slots |-> UninitSlot]

\* RcInner written by alloc: refCount 1, borrowCount UNUSED, the value
NewInner(k) == [st |-> "valid", refCount |-> 1, borrowCount |-> UNUSED, gen |-> k]

\* the cursor after a successful alloc: alloc never assigns self.allocated
allocCursor(a) == a

\* RcPool::alloc
alloc ==
    /\ ~poolPanic
    /\ subject = "RcPool"
    /\ Len(allocLog) < MaxAllocCalls
    /\ IF allocated = N
       THEN /\ allocLog' = Append(allocLog, FALSE)
            /\ UNCHANGED <<allocated, pool, handles>>
       ELSE /\ FreeIds # {}
            /\ pool' = [pool EXCEPT ![allocated] = NewInner(Len(allocLog) + 1)]
            /\ handles' = [handles EXCEPT
                             ![NewId] = [slot |-> allocated, gen |-> Len(allocLog) + 1]]
            /\ allocated' = allocCursor(allocated)
            /\ allocLog' = Append(allocLog, TRUE)
    /\ UNCHANGED <<subject, N, mutGuards, sharedRefs, lastBorrow, cellBorrow, cellMuts,
                   cellRefs, debug, poolPanic>>
    /\ UNCHANGED <<joinVars, bridgeVars, codecVars, channelVars, endpointVars>>

\* RcInner::incCount: the new count and whether it panics.  A count of 0
\* breaks assert_unchecked (undefined behaviour): the build may trap or go on.
incCount(count, trap) ==
    LET next == (count + 1) % (MaxCount + 1)
    IN  [count |-> next, panic |-> (next = 0) \/ (count = 0 /\ trap)]

\* RcInner::decCount: count - 1 on a usize; panics with overflow checks,
\* wraps without
decCount(count) ==
    IF count = 0
    THEN [count |-> MaxCount, panic |-> debug]
    ELSE [count |-> count - 1, panic |-> FALSE]

\* impl Clone for Rc
clone(h) ==
    /\ ~poolPanic
    /\ subject = "RcPool"
    /\ h \in LiveIds
    /\ FreeIds # {}
    /\ \E trap \in BOOLEAN :
         LET s == handles[h].slot
             r == incCount(pool[s].refCount, trap)
         IN  /\ pool' = [pool EXCEPT ![s].refCount = r.count]
             /\ poolPanic' = r.panic
             /\ handles' = IF r.panic THEN handles
                           ELSE [handles EXCEPT ![NewId] = handles[h]]
    /\ UNCHANGED <<subject, N, allocated, mutGuards, sharedRefs, allocLog, lastBorrow,
                   cellBorrow, cellMuts, cellRefs, debug>>
    /\ UNCHANGED <<joinVars, bridgeVars, codecVars, channelVars, endpointVars>>

\* impl Drop for Rc.  A handle that a Ref or RefMut still borrows cannot be
\* dropped (the guards carry the handle's lifetime).
drop(h) ==
    /\ ~poolPanic
    /\ subject = "RcPool"
    /\ h \in LiveIds
    /\ mutGuards[h] = 0
    /\ sharedRefs[h] = 0
    /\ LET s == handles[h].slot
           r == decCount(pool[s].refCount)
       IN  /\ poolPanic' = r.panic
           /\ pool' = IF r.panic THEN pool
                      ELSE [pool EXCEPT ![s].refCount = r.count,
                                        ![s].st = IF r.count = 0 THEN "dropped"
                                                  ELSE pool[s].st]
           /\ handles' = [handles EXCEPT ![h] = NoHandle]
    /\ UNCHANGED <<subject, N, allocated, mutGuards, sharedRefs, allocLog, lastBorrow,
                   cellBorrow, cellMuts, cellRefs, debug>>
    /\ UNCHANGED <<joinVars, bridgeVars, codecVars, channelVars, endpointVars>>

\* BorrowRefMut::new: the counter after the call and whether a guard is made
BorrowRefMutNew(borrow) ==
    IF borrow = UNUSED
    THEN [borrow |-> UNUSED - 1, some |-> TRUE]
    ELSE [borrow |-> borrow, some |-> FALSE]

\* impl Drop for BorrowRefMut: debug_assert!(borrow < UNUSED), then borrow + 1
BorrowRefMutDrop(borrow) ==
    [borrow |-> borrow + 1, panic |-> debug /\ ~(borrow < UNUSED)]

\* Rc::borrow: hands out a Ref, the borrow counter is not read or written
RcBorrow(h) ==
    /\ ~poolPanic
    /\ subject = "RcPool"
    /\ h \in LiveIds
    /\ LiveGuards < MaxGuards
    /\ sharedRefs' = [sharedRefs EXCEPT ![h] = @ + 1]
    /\ UNCHANGED <<subject, N, allocated, pool, handles, mutGuards, allocLog, lastBorrow,
                   cellBorrow, cellMuts, cellRefs, debug, poolPanic>>
    /\ UNCHANGED <<joinVars, bridgeVars, codecVars, channelVars, endpointVars>>

\* a Ref of an Rc goes out of scope (Ref has no Drop)
RcRefRelease(h) ==
    /\ ~poolPanic
    /\ subject = "RcPool"
    /\ h \in LiveIds
    /\ sharedRefs[h] > 0
    /\ sharedRefs' = [sharedRefs EXCEPT ![h] = @ - 1]
    /\ UNCHANGED <<subject, N, allocated, pool, handles, mutGuards, allocLog, lastBorrow,
                   cellBorrow, cellMuts, cellRefs, debug, poolPanic>>
    /\ UNCHANGED <<joinVars, bridgeVars, codecVars, channelVars, endpointVars>>

\* Rc::tryBorrowMut
RcTryBorrowMut(h) ==
    /\ ~poolPanic
    /\ subject = "RcPool"
    /\ h \in LiveIds
    /\ LiveGuards < MaxGuards
    /\ LET s == handles[h].slot
           b == BorrowRefMutNew(pool[s].borrowCount)
       IN  /\ pool' = [pool EXCEPT ![s].borrowCount = b.borrow]
           /\ mutGuards' = IF b.some THEN [mutGuards EXCEPT ![h] = @ + 1]
                           ELSE mutGuards
           /\ lastBorrow' = IF b.some THEN "Ok" ELSE "Err"
    /\ UNCHANGED <<subject, N, allocated, handles, sharedRefs, allocLog, cellBorrow,
                   cellMuts, cellRefs, debug, poolPanic>>
    /\ UNCHANGED <<joinVars, bridgeVars, codecVars, channelVars, endpointVars>>

\* Rc::borrowMut: panics where tryBorrowMut returns Err
RcBorrowMut(h) ==
    /\ ~poolPanic
    /\ subject = "RcPool"
    /\ h \in LiveIds
    /\ LiveGuards < MaxGuards
    /\ LET s == handles[h].slot
           b == BorrowRefMutNew(pool[s].borrowCount)
       IN  /\ pool' = [pool EXCEPT ![s].borrowCount = b.borrow]
           /\ mutGuards' = IF b.some THEN [mutGuards EXCEPT ![h] = @ + 1]
                           ELSE mutGuards
           /\ lastBorrow' = IF b.some THEN "Ok" ELSE "Panic"
           /\ poolPanic' = ~b.some
    /\ UNCHANGED <<subject, N, allocated, handles, sharedRefs, allocLog, cellBorrow,
                   cellMuts, cellRefs, debug>>
    /\ UNCHANGED <<joinVars, bridgeVars, codecVars, channelVars, endpointVars>>

\* a RefMut of an Rc goes out of scope: impl Drop for BorrowRefMut
RcRefMutRelease(h) ==
    /\ ~poolPanic
    /\ subject = "RcPool"
    /\ h \in LiveIds
    /\ mutGuards[h] > 0
    /\ LET s == handles[h].slot
           b == BorrowRefMutDrop(pool[s].borrowCount)
       IN  /\ poolPanic' = b.panic
           /\ pool' = IF b.panic THEN pool
                      ELSE [pool EXCEPT ![s].borrowCount = b.borrow]
           /\ mutGuards' = [mutGuards EXCEPT ![h] = @ - 1]
    /\ UNCHANGED <<subject, N, allocated, handles, sharedRefs, allocLog, lastBorrow,
                   cellBorrow, cellMuts, cellRefs, debug>>
    /\ UNCHANGED <<joinVars, bridgeVars, codecVars, channelVars, endpointVars>>

\* ---------------------------------------------------- unsafe_ref_cell.rs
\* UnsafeRefCell::new
CellNew ==
    /\ cellBorrow = UNUSED
    /\ cellMuts = 0
    /\ cellRefs = 0

\* UnsafeRefCell::borrow: hands out a Ref, the counter is not read or written
CellBorrow ==
    /\ ~poolPanic
    /\ subject = "UnsafeRefCell"
    /\ cellRefs + cellMuts < MaxGuards
    /\ cellRefs' = cellRefs + 1
    /\ UNCHANGED <<subject, N, allocated, pool, handles, mutGuards, sharedRefs, allocLog,
                   lastBorrow, cellBorrow, cellMuts, debug, poolPanic>>
    /\ UNCHANGED <<joinVars, bridgeVars, codecVars, channelVars, endpointVars>>

\* a Ref of the UnsafeRefCell goes out of scope (Ref has no Drop)
CellRefRelease ==
    /\ ~poolPanic
    /\ subject = "UnsafeRefCell"
    /\ cellRefs > 0
    /\ cellRefs' = cellRefs - 1
    /\ UNCHANGED <<subject, N, allocated, pool, handles, mutGuards, sharedRefs, allocLog,
                   lastBorrow, cellBorrow, cellMuts, debug, poolPanic>>
    /\ UNCHANGED <<joinVars, bridgeVars, codecVars, channelVars, endpointVars>>

\* UnsafeRefCell::tryBorrowMut
CellTryBorrowMut ==
    /\ ~poolPanic
    /\ subject = "UnsafeRefCell"
    /\ cellRefs + cellMuts < MaxGuards
    /\ LET b == BorrowRefMutNew(cellBorrow)
       IN  /\ cellBorrow' = b.borrow
           /\ cellMuts' = IF b.some THEN cellMuts + 1 ELSE cellMuts
           /\ lastBorrow' = IF b.some THEN "CellOk" ELSE "CellErr"
    /\ UNCHANGED <<subject, N, allocated, pool, handles, mutGuards, sharedRefs, allocLog,
                   cellRefs, debug, poolPanic>>
    /\ UNCHANGED <<joinVars, bridgeVars, codecVars, channelVars, endpointVars>>

\* UnsafeRefCell::borrowMut: panics where tryBorrowMut returns Err
CellBorrowMut ==
    /\ ~poolPanic
    /\ subject = "UnsafeRefCell"
    /\ cellRefs + cellMuts < MaxGuards
    /\ LET b == BorrowRefMutNew(cellBorrow)
       IN  /\ cellBorrow' = b.borrow
           /\ cellMuts' = IF b.some THEN cellMuts + 1 ELSE cellMuts
           /\ lastBorrow' = IF b.some THEN "CellOk" ELSE "CellPanic"
           /\ poolPanic' = ~b.some
    /\ UNCHANGED <<subject, N, allocated, pool, handles, mutGuards, sharedRefs, allocLog,
                   cellRefs, debug>>
    /\ UNCHANGED <<joinVars, bridgeVars, codecVars, channelVars, endpointVars>>

\* a RefMut of the UnsafeRefCell goes out of scope
CellRefMutRelease ==
    /\ ~poolPanic
    /\ subject = "UnsafeRefCell"
    /\ cellMuts > 0
    /\ LET b == BorrowRefMutDrop(cellBorrow)
       IN  /\ poolPanic' = b.panic
           /\ cellBorrow' = IF b.panic THEN cellBorrow ELSE b.borrow
           /\ cellMuts' = cellMuts - 1
    /\ UNCHANGED <<subject, N, allocated, pool, handles, mutGuards, sharedRefs, allocLog,
                   lastBorrow, cellRefs, debug>>
    /\ UNCHANGED <<joinVars, bridgeVars, codecVars, channelVars, endpointVars>>

\* ------------------------------------------------------- run_multiple.rs
\* a sub-future that becomes ready on its need-th poll, polled once more
SubReady(polls, need) == need # 0 /\ polls + 1 >= need

\* MaybeDone::poll that polls the future again although it is Done
MaybeDonePollAgain(state, ready) ==
    [st |-> IF ready THEN "Done" ELSE state, ret |-> ready \/ state = "Done",
     polled |-> TRUE]

\* MaybeDone::poll: the state after, the value returned and whether the
\* wrapped future was polled
MaybeDonePoll(state, ready) ==
    IF state = "Future"
    THEN [st |-> IF ready THEN "Done" ELSE "Future", ret |-> ready, polled |-> TRUE]
    ELSE [st |-> "Done", ret |-> TRUE, polled |-> FALSE]

\* impl Future for RunTwo, poll: future1.poll(ctx) && future2.poll(ctx);
\* the right operand of && only runs when the left one returned true
RunTwoPoll(s1, s2, ready1, ready2) ==
    LET p1 == MaybeDonePoll(s1, ready1)
        p2 == IF p1.ret THEN MaybeDonePoll(s2, ready2)
              ELSE [st |-> s2, ret |-> FALSE, polled |-> FALSE]
        allDone == p1.ret /\ p2.ret
    IN  [f1 |-> p1.st, f2 |-> p2.st, polled1 |-> p1.polled, polled2 |-> p2.polled,
         ret |-> IF allDone THEN "Ready" ELSE "Pending"]

\* RunTwo::new
RunTwoNew ==
    /\ future1 = "Future"
    /\ future2 = "Future"
    /\ polls1 = 0
    /\ polls2 = 0
    /\ cycle = 0
    /\ result = "none"
    /\ doneAt = <<0, 0>>
    /\ lastPoll = [pending1 |-> FALSE, pending2 |-> FALSE,
                   polled1 |-> FALSE, polled2 |-> FALSE]

\* the executor polls the RunTwo future until it returns Ready
JoinPoll ==
    /\ cycle < MaxCycles
    /\ result # "Ready"
    /\ LET r == RunTwoPoll(future1, future2, SubReady(polls1, need1),
                           SubReady(polls2, need2))
       IN  /\ future1' = r.f1
           /\ future2' = r.f2
           /\ polls1' = IF r.polled1 THEN polls1 + 1 ELSE polls1
           /\ polls2' = IF r.polled2 THEN polls2 + 1 ELSE polls2
           /\ cycle' = cycle + 1
           /\ result' = r.ret
           /\ doneAt' = <<IF future1 = "Future" /\ r.f1 = "Done" THEN cycle + 1
                          ELSE doneAt[1],
                          IF future2 = "Future" /\ r.f2 = "Done" THEN cycle + 1
                          ELSE doneAt[2]>>
           /\ lastPoll' = [pending1 |-> future1 = "Future",
                           pending2 |-> future2 = "Future",
                           polled1 |-> r.polled1, polled2 |-> r.polled2]
    /\ UNCHANGED <<need1, need2>>
    /\ UNCHANGED <<poolVars, bridgeVars, codecVars, channelVars, endpointVars>>

\* the combinator while another component is exercised
JoinIdle ==
    /\ RunTwoNew
    /\ need1 = 0
    /\ need2 = 0

JoinStart ==
    /\ RunTwoNew
    /\ need1 \in 0 .. MaxNeed
    /\ need2 \in 0 .. MaxNeed

\* ------------------------------------------------------------- types.rs
\* impl From<u8> for StopBits: the variant, "panic" for any other value
StopBitsFrom(value) ==
    CASE value = 0 -> "One"
      [] value = 1 -> "OneAndHalf"
      [] value = 2 -> "Two"
      [] OTHER -> "panic"

\* StopBits as u8
StopBitsAsU8(stopBits) ==
    CASE stopBits = "One" -> 0
      [] stopBits = "OneAndHalf" -> 1
      [] stopBits = "Two" -> 2

\* impl From<u8> for ParityType: the variant, "panic" for any other value
ParityTypeFrom(value) ==
    CASE value = 0 -> "None"
      [] value = 1 -> "Odd"
      [] value = 2 -> "Even"
      [] value = 3 -> "Mark"
      [] value = 4 -> "Space"
      [] OTHER -> "panic"

\* ParityType as u8
ParityTypeAsU8(parityType) ==
    CASE parityType = "None" -> 0
      [] parityType = "Odd" -> 1
      [] parityType = "Even" -> 2
      [] parityType = "Mark" -> 3
      [] parityType = "Space" -> 4

\* u32::from_le_bytes
U32FromLe(b) == b[1] + 256 * b[2] + 65536 * b[3] + 16777216 * b[4]

\* the four bytes of a u32, were they written most significant first
U32ToBe(v) == <<(v \div 16777216) % 256, (v \div 65536) % 256, (v \div 256) % 256,
                v % 256>>

\* u32::to_le_bytes
U32ToLe(v) == <<v % 256, (v \div 256) % 256, (v \div 65536) % 256,
                (v \div 16777216) % 256>>

\* impl Default for SerialEncoding
DefaultEncoding ==
    [baudRate |-> 115200, stopBits |-> "One", parityType |-> "None", dataBits |-> 8]

\* SerialEncoding::fromData: None, Some(record), or a panic in a conversion
fromData(data) ==
    IF Len(data) < 7 THEN [kind |-> "None", enc |-> DefaultEncoding]
    ELSE IF StopBitsFrom(data[5]) = "panic" \/ ParityTypeFrom(data[6]) = "panic"
    THEN [kind |-> "panic", enc |-> DefaultEncoding]
    ELSE [kind |-> "Some",
          enc |-> [baudRate |-> U32FromLe(SubSeq(data, 1, 4)),
                   stopBits |-> StopBitsFrom(data[5]),
                   parityType |-> ParityTypeFrom(data[6]),
                   dataBits |-> data[7]]]

\* toData, were it to copy the bytes that fit before it reports a buffer
\* that is too short
toDataPartial(enc, data) ==
    LET bytes == U32ToLe(enc.baudRate)
                 \o <<StopBitsAsU8(enc.stopBits), ParityTypeAsU8(enc.parityType),
                      enc.dataBits>>
    IN  IF Len(data) < 7
        THEN [len |-> -1, data |-> SubSeq(bytes, 1, Len(data))]
        ELSE [len |-> 7, data |-> bytes \o SubSeq(data, 8, Len(data))]

\* SerialEncoding::toData: the length returned (-1 for None) and the buffer
toData(enc, data) ==
    IF Len(data) < 7 THEN [len |-> -1, data |-> data]
    ELSE [len |-> 7,
          data |-> U32ToLe(enc.baudRate)
                   \o <<StopBitsAsU8(enc.stopBits), ParityTypeAsU8(enc.parityType),
                        enc.dataBits>>
                   \o SubSeq(data, 8, Len(data))]

\* a caller's buffer before the callee fills it
FreshBuffer(len) == [i \in 1 .. len |-> 255]

\* the conversion to usart::Parity, were it to map every parity type
ParityAllRepresentable(parityType) == TRUE

\* impl Into<usart::Parity> for ParityType: panics for Mark and Space
ParityRepresentable(parityType) == parityType \in {"None", "Odd", "Even"}

\* SerialEncoding::dataBits: panics unless 7, 8 or 9
DataBitsRepresentable(dataBits) == dataBits \in {7, 8, 9}

\* the codec while another component is exercised
CodecIdle ==
    /\ buffer = <<>>
    /\ decoded = <<>>
    /\ written = <<>>

\* a caller holds a buffer of up to MaxData bytes
CodecStart ==
    /\ buffer \in UNION {[1 .. n -> DataBytes] : n \in 0 .. MaxData}
    /\ decoded = <<>>
    /\ written = <<>>

\* the caller passes its buffer to SerialEncoding::fromData
FromData ==
    /\ decoded = <<>>
    /\ decoded' = <<fromData(buffer)>>
    /\ UNCHANGED <<buffer, written>>
    /\ UNCHANGED <<poolVars, joinVars, bridgeVars, channelVars, endpointVars>>

\* the caller passes the record and a buffer of len bytes to toData
ToData(len) ==
    /\ decoded # <<>>
    /\ decoded[1].kind = "Some"
    /\ written = <<>>
    /\ written' = <<toData(decoded[1].enc, FreshBuffer(len))>>
    /\ UNCHANGED <<buffer, decoded>>
    /\ UNCHANGED <<poolVars, joinVars, bridgeVars, channelVars, endpointVars>>

\* --------------------------------------------------------------- usb.rs
\* enum CdcRequest
SetLineCoding == 32
GetLineCoding == 33
SetControlLineState == 34

\* SerialHandler::new: controlInterface: 255
Unassigned == 255

\* Channel<CriticalSectionRawMutex, _, 1>
ChannelCapacity == 1

\* interface numbers the builder may hand to controlInterface
InterfaceNumbers == {1}

\* data stages the host sends with a control OUT request: 9600 8N1, 115200
\* with two stop bits, mark parity and 7 data bits, 9600 with 5 data bits
\* and a trailing byte, a 6 byte stage, and a stage with stop bits byte 3
OutBuffers ==
    { <<128, 37, 0, 0, 0, 0, 8>>,
      <<0, 194, 1, 0, 2, 3, 7>>,
      <<128, 37, 0, 0, 0, 0, 5, 90>>,
      <<128, 37, 0, 0, 0, 0>>,
      <<128, 37, 0, 0, 3, 0, 8>> }

\* lengths of the buffer the USB stack passes to control_in
InLengths == {6, 7, 8}

\* control::Request as far as the handler reads it
Packet(recipient, request_type, request, value, index) ==
    [recipient |-> recipient, request_type |-> request_type, request |-> request,
     value |-> value, index |-> index]

\* control OUT transfers the host sends, <<packet, data stage>>: the CDC
\* requests to interface 1, three of them to interface 255, a request code
\* that is none of the three, GetLineCoding as an OUT transfer, and one
\* request each with another recipient and another type
HostOut ==
    {<<Packet("Interface", "Class", SetLineCoding, 0, 1), d>> : d \in OutBuffers}
    \cup {<<Packet("Interface", "Class", SetControlLineState, v, 1), <<>>>> :
             v \in {0, 3}}
    \cup {<<Packet("Interface", "Class", r, 0, 1), <<>>>> : r \in {GetLineCoding, 35}}
    \cup {<<Packet("Interface", "Class", SetLineCoding, 0, Unassigned),
            <<128, 37, 0, 0, 0, 0, 8>>>>,
          <<Packet("Interface", "Class", SetControlLineState, 3, Unassigned), <<>>>>,
          <<Packet("Device", "Class", SetControlLineState, 3, 1), <<>>>>,
          <<Packet("Interface", "Standard", SetControlLineState, 3, 1), <<>>>>}

\* control IN transfers the host sends, <<packet, length of the buffer>>
HostIn ==
    {<<Packet("Interface", "Class", GetLineCoding, 0, 1), n>> : n \in InLengths}
    \cup {<<Packet("Interface", "Class", r, 0, 1), 7>> : r \in {SetLineCoding, 35}}
    \cup {<<Packet("Interface", "Class", GetLineCoding, 0, Unassigned), 7>>,
          <<Packet("Device", "Class", GetLineCoding, 0, 1), 7>>,
          <<Packet("Interface", "Standard", GetLineCoding, 0, 1), 7>>}

\* CdcRequest::from: panics for any other request code
CdcRequestKnown(request) ==
    request \in {SetLineCoding, GetLineCoding, SetControlLineState}

\* the guard at the head of control_in and control_out, were it to leave
\* out the comparison of the index
AddressedAnyIndex(ci, packet) ==
    /\ packet.recipient = "Interface"
    /\ packet.request_type = "Class"

\* the guard at the head of control_in and control_out
Addressed(ci, packet) ==
    /\ packet.recipient = "Interface"
    /\ packet.request_type = "Class"
    /\ packet.index = ci

\* Signal::signal as called by controlLineState and encodingFromData, were it
\* to wait while a value is pending
SignalBlocking(signal, value) ==
    IF signal = <<>> THEN [signal |-> <<value>>, done |-> TRUE]
    ELSE [signal |-> signal, done |-> FALSE]

\* Signal::signal, were a pending value to be kept and the new one dropped
SignalKeepFirst(signal, value) ==
    [signal |-> IF signal = <<>> THEN <<value>> ELSE signal, done |-> TRUE]

\* Signal::signal as called by controlLineState and encodingFromData: the
\* value replaces a pending one, the caller never waits
Signal(signal, value) == [signal |-> <<value>>, done |-> TRUE]

\* the state the handler and its run loop work on
World ==
    [controlInterface |-> controlInterface, encoding |-> encoding,
     encodingUpdate |-> encodingUpdate, stateUpdate |-> stateUpdate,
     notificationEndpoint |-> notificationEndpoint,
     endpointBorrow |-> endpointBorrow, receiveChannel |-> receiveChannel,
     run |-> run, endpoint |-> endpoint, fatal |-> fatal,
     acceptedLog |-> acceptedLog, forwardedLog |-> forwardedLog,
     lastCall |-> lastCall]

SetWorld(w) ==
    /\ controlInterface' = w.controlInterface
    /\ encoding' = w.encoding
    /\ encodingUpdate' = w.encodingUpdate
    /\ stateUpdate' = w.stateUpdate
    /\ notificationEndpoint' = w.notificationEndpoint
    /\ endpointBorrow' = w.endpointBorrow
    /\ receiveChannel' = w.receiveChannel
    /\ run' = w.run
    /\ endpoint' = w.endpoint
    /\ fatal' = w.fatal
    /\ acceptedLog' = w.acceptedLog
    /\ forwardedLog' = w.forwardedLog
    /\ lastCall' = w.lastCall

\* SerialHandlerInner::encodingToData: encoding.borrow().toData(data); the
\* RefCell is only borrowed inside encodingToData and replace
encodingToData(w, data) == toData(w.encoding, data)

\* SerialHandler::control_in
control_in(w, packet, data) ==
    IF ~Addressed(w.controlInterface, packet)
    THEN [w EXCEPT !.lastCall = [op |-> "in", request |-> packet.request,
                                addressed |-> FALSE, outcome |-> "None",
                                data |-> data]]
    ELSE IF ~CdcRequestKnown(packet.request)
    THEN [w EXCEPT !.fatal = "Invalid CDC ACM request type for conversion",
                   !.lastCall = [op |-> "in", request |-> packet.request,
                                addressed |-> TRUE, outcome |-> "panic",
                                data |-> data]]
    ELSE IF packet.request = GetLineCoding
    THEN LET r == encodingToData(w, data)
         IN  [w EXCEPT !.lastCall =
                 [op |-> "in", request |-> packet.request, addressed |-> TRUE,
                  outcome |-> IF r.len = -1 THEN "None" ELSE "Accepted",
                  data |-> IF r.len = -1 THEN r.data ELSE SubSeq(r.data, 1, r.len)]]
    ELSE [w EXCEPT !.lastCall = [op |-> "in", request |-> packet.request,
                                addressed |-> TRUE, outcome |-> "None",
                                data |-> data]]

\* SerialHandlerInner::controlLineState
controlLineState(w, state) ==
    LET s == Signal(w.stateUpdate, state)
    IN  [w EXCEPT !.stateUpdate = s.signal,
                  !.lastCall = [op |-> "out", request |-> SetControlLineState,
                               addressed |-> TRUE,
                               outcome |-> IF s.done THEN "Accepted" ELSE "suspended",
                               data |-> <<>>]]

\* SerialHandlerInner::encodingFromData
encodingFromData(w, data) ==
    LET r == fromData(data)
        s == Signal(w.encodingUpdate, r.enc)
    IN  CASE r.kind = "None" ->
               [w EXCEPT !.lastCall = [op |-> "out", request |-> SetLineCoding,
                                      addressed |-> TRUE, outcome |-> "None",
                                      data |-> <<>>]]
          [] r.kind = "panic" ->
               [w EXCEPT !.fatal = "Invalid setting for conversion",
                         !.lastCall = [op |-> "out", request |-> SetLineCoding,
                                      addressed |-> TRUE, outcome |-> "panic",
                                      data |-> <<>>]]
          [] r.kind = "Some" ->
               [w EXCEPT !.encodingUpdate = s.signal,
                         !.acceptedLog = IF s.done THEN Append(@, r.enc) ELSE @,
                         !.lastCall = [op |-> "out", request |-> SetLineCoding,
                                      addressed |-> TRUE,
                                      outcome |-> IF s.done THEN "Accepted"
                                                  ELSE "suspended",
                                      data |-> <<>>]]

\* SerialHandler::control_out
control_out(w, packet, data) ==
    IF ~Addressed(w.controlInterface, packet)
    THEN [w EXCEPT !.lastCall = [op |-> "out", request |-> packet.request,
                                addressed |-> FALSE, outcome |-> "None",
                                data |-> <<>>]]
    ELSE IF ~CdcRequestKnown(packet.request)
    THEN [w EXCEPT !.fatal = "Invalid CDC ACM request type for conversion",
                   !.lastCall = [op |-> "out", request |-> packet.request,
                                addressed |-> TRUE, outcome |-> "panic",
                                data |-> <<>>]]
    ELSE IF packet.request = SetControlLineState
    THEN controlLineState(w, packet.value)
    ELSE IF packet.request = SetLineCoding
    THEN encodingFromData(w, data)
    ELSE [w EXCEPT !.lastCall = [op |-> "out", request |-> packet.request,
                                addressed |-> TRUE, outcome |-> "None",
                                data |-> <<>>]]

\* CdcNotification::asMessage for SerialState
asMessage(interface) ==
    <<161, 32>> \o <<0, 0>> \o <<interface % 256, interface \div 256>>
                \o <<2, 0>> \o <<3, 0>>

\* the value the Either3::First arm stores, were the store to wait for the
\* send to complete
FirstArmEncodingDeferred(w, enc) == w.encoding

\* the value the Either3::First arm stores before it sends:
\* self.encoding.replace(encoding)
FirstArmEncoding(w, enc) == enc

\* the request the Either3::First arm sends, were it to send the encoding
\* that was stored before the update
FirstArmRequestStale(w, enc) == w.encoding

\* the request the Either3::First arm sends: ChangeEncoding(encoding)
FirstArmRequest(w, enc) == enc

\* a send on a Channel, were the channel to take any number of messages
ChannelSendUnbounded(channel, message) ==
    [channel |-> Append(channel, message), sent |-> TRUE]

\* one poll of Sender::send on RECEIVE_CHANNEL, a Channel of capacity 1: the
\* message is queued if there is room, the sender stays suspended if not
ChannelSend(channel, message) ==
    IF Len(channel) < ChannelCapacity
    THEN [channel |-> Append(channel, message), sent |-> TRUE]
    ELSE [channel |-> channel, sent |-> FALSE]

\* SerialHandlerInner::run, one poll of its future: from where it is
\* suspended up to the next await that is not ready.  select3 polls the
\* encoding signal, then the state signal, then the transmit channel, which
\* never holds a TransmitRequest (the enum has no variant).
RECURSIVE runPoll(_)
runPoll(w) ==
    IF w.fatal # "" THEN w
    ELSE CASE w.run.at = "select" ->
                IF w.encodingUpdate # <<>>
                THEN LET enc == w.encodingUpdate[1]
                     IN  runPoll([w EXCEPT
                            !.encodingUpdate = <<>>,
                            !.encoding = FirstArmEncoding(w, enc),
                            !.run = [at |-> "send", req |-> FirstArmRequest(w, enc)]])
                ELSE IF w.stateUpdate # <<>>
                THEN IF w.notificationEndpoint = "unset"
                     THEN [w EXCEPT !.stateUpdate = <<>>,
                             !.fatal = "Notification endpoint should be valid at this point"]
                     ELSE IF w.endpointBorrow # 0
                     THEN [w EXCEPT !.stateUpdate = <<>>,
                                    !.fatal = "already borrowed"]
                     ELSE runPoll([w EXCEPT
                            !.stateUpdate = <<>>,
                            !.endpointBorrow = -1,
                            !.run = [at |-> "write",
                                     req |-> asMessage(w.controlInterface)]])
                ELSE w
           [] w.run.at = "send" ->
                IF ChannelSend(w.receiveChannel, w.run.req).sent
                THEN runPoll([w EXCEPT
                        !.receiveChannel = ChannelSend(@, w.run.req).channel,
                        !.forwardedLog = Append(@, w.run.req),
                        !.run = [at |-> "select", req |-> <<>>]])
                ELSE w
           [] w.run.at = "write" ->
                IF ~w.endpoint.busy
                THEN runPoll([w EXCEPT
                        !.endpoint = [busy |-> TRUE, packet |-> w.run.req],
                        !.endpointBorrow = 0,
                        !.run = [at |-> "select", req |-> <<>>]])
                ELSE w

\* a data stage that is a line coding record: 7 bytes or more, stop bits
\* byte 0..2, parity byte 0..4
WellFormed(data) ==
    /\ Len(data) >= 7
    /\ data[5] \in 0 .. 2
    /\ data[6] \in 0 .. 4

\* what the handler loop and the channel were doing when a call was made
Context(w, len, data) ==
    [len |-> len, wellFormed |-> WellFormed(data), at |-> w.run.at,
     full |-> Len(w.receiveChannel) = 1,
     pending |-> w.encodingUpdate # <<>> \/ w.stateUpdate # <<>>]

NoContext ==
    [len |-> 0, wellFormed |-> FALSE, at |-> "select", full |-> FALSE,
     pending |-> FALSE]

\* SerialHandler::new, with the channels of main.rs empty and the UART task
\* at its default configuration
BridgeNew ==
    /\ controlInterface = Unassigned
    /\ encoding = DefaultEncoding
    /\ encodingUpdate = <<>>
    /\ stateUpdate = <<>>
    /\ notificationEndpoint = "unset"
    /\ transmitEndpoint = "unset"
    /\ receiveEndpoint = "unset"
    /\ endpointBorrow = 0
    /\ receiveChannel = <<>>
    /\ transmitChannel = <<>>
    /\ run = [at |-> "select", req |-> <<>>]
    /\ endpoint = [busy |-> FALSE, packet |-> <<>>]
    /\ config = DefaultEncoding
    /\ applied = <<>>
    /\ fatal = ""
    /\ pendingSetup = <<>>
    /\ acceptedLog = <<>>
    /\ forwardedLog = <<>>
    /\ registered = FALSE
    /\ lastCall = [op |-> "none", request |-> 0, addressed |-> FALSE,
                   outcome |-> "None", data |-> <<>>]
    /\ callContext = NoContext

\* the bridge while another component is exercised
BridgeIdle == BridgeNew

\* SerialHandlerInner::controlInterface, called by usbTask while it builds
\* the device
ControlInterface(i) ==
    /\ fatal = ""
    /\ ~registered
    /\ controlInterface = Unassigned
    /\ controlInterface' = i
    /\ UNCHANGED <<encoding, encodingUpdate, stateUpdate, notificationEndpoint,
                   endpointBorrow, receiveChannel, run, endpoint, config, applied,
                   fatal, pendingSetup, acceptedLog, forwardedLog, registered, lastCall, callContext>>
    /\ UNCHANGED <<poolVars, joinVars, codecVars, channelVars, endpointVars>>

\* the three endpoint handles of the handler
EndpointCells == <<notificationEndpoint, transmitEndpoint, receiveEndpoint>>

\* OnceCell::set, were it to replace a value that is already there
OnceCellSetAgain(cell, value) == [cell |-> value, ok |-> TRUE]

\* OnceCell::set: the cell after the call and whether it returned Ok
OnceCellSet(cell, value) ==
    IF cell = "unset" THEN [cell |-> value, ok |-> TRUE]
    ELSE [cell |-> cell, ok |-> FALSE]

\* the endpoint handles a caller may pass to endpoints: those of its first
\* call are named "set", those of any later call "other"
EndpointHandles == {"set", "other"}

\* SerialHandlerInner::endpoints: the three OnceCell::set calls are chained
\* with and_then, the first that fails makes the expect panic
Endpoints(e) ==
    /\ fatal = ""
    /\ ~registered
    /\ e = (IF EndpointCells = <<"unset", "unset", "unset">> THEN "set" ELSE "other")
    /\ LET n == OnceCellSet(notificationEndpoint, e)
           t == IF n.ok THEN OnceCellSet(transmitEndpoint, e)
                ELSE [cell |-> transmitEndpoint, ok |-> FALSE]
           r == IF t.ok THEN OnceCellSet(receiveEndpoint, e)
                ELSE [cell |-> receiveEndpoint, ok |-> FALSE]
       IN  /\ notificationEndpoint' = n.cell
           /\ transmitEndpoint' = t.cell
           /\ receiveEndpoint' = r.cell
           /\ fatal' = IF r.ok THEN fatal ELSE "Endpoints already initialised"
    /\ UNCHANGED <<controlInterface, encoding, encodingUpdate, stateUpdate,
                   endpointBorrow, receiveChannel, run, endpoint, config, applied,
                   pendingSetup, acceptedLog, forwardedLog, registered, lastCall, callContext>>
    /\ UNCHANGED <<poolVars, joinVars, codecVars, channelVars>>

\* usbTask: builder.handler(&mut serialHandler) and builder.build(); from
\* here on the device borrows the handler, and the run future exists
Register ==
    /\ fatal = ""
    /\ ~registered
    /\ registered' = TRUE
    /\ UNCHANGED <<controlInterface, encoding, encodingUpdate, stateUpdate,
                   notificationEndpoint, endpointBorrow, receiveChannel, run,
                   endpoint, config, applied, fatal, pendingSetup, acceptedLog,
                   forwardedLog, lastCall, callContext>>
    /\ UNCHANGED <<poolVars, joinVars, codecVars, channelVars, endpointVars>>

\* the USB stack calls control_in
ControlIn(packet, len) ==
    /\ fatal = ""
    /\ registered
    /\ \E w \in {control_in(World, packet, FreshBuffer(len))} : SetWorld(w)
    /\ callContext' = Context(World, len, <<>>)
    /\ UNCHANGED <<config, applied, pendingSetup, registered>>
    /\ UNCHANGED <<poolVars, joinVars, codecVars, channelVars, endpointVars>>

\* the USB stack calls control_out
ControlOut(packet, data) ==
    /\ fatal = ""
    /\ registered
    /\ packet.request = SetLineCoding /\ fromData(data).kind = "Some"
         => Len(acceptedLog) < MaxAccepted
    /\ \E w \in {control_out(World, packet, data)} : SetWorld(w)
    /\ callContext' = Context(World, 0, data)
    /\ UNCHANGED <<config, applied, pendingSetup, registered>>
    /\ UNCHANGED <<poolVars, joinVars, codecVars, channelVars, endpointVars>>

\* the executor polls the future of SerialHandlerInner::run
PollRun ==
    /\ fatal = ""
    /\ registered
    /\ \E w \in {runPoll(World)} : w # World /\ SetWorld(w)
    /\ UNCHANGED <<config, applied, pendingSetup, registered, callContext>>
    /\ UNCHANGED <<poolVars, joinVars, codecVars, channelVars, endpointVars>>

\* the host takes the packet of the interrupt IN endpoint
HostTakesNotification ==
    /\ fatal = ""
    /\ registered
    /\ endpoint.busy
    /\ endpoint' = [endpoint EXCEPT !.busy = FALSE]
    /\ UNCHANGED <<controlInterface, encoding, encodingUpdate, stateUpdate,
                   notificationEndpoint, endpointBorrow, receiveChannel, run,
                   config, applied, fatal, pendingSetup, acceptedLog, forwardedLog,
                   registered, lastCall, callContext>>
    /\ UNCHANGED <<poolVars, joinVars, codecVars, channelVars, endpointVars>>

\* ------------------------------------------------------------ serial.rs
\* handleReceiveRequest for ChangeEncoding(enc): the UartConfig after, the
\* configuration given to set_config, and the panic if one is reached
handleReceiveRequest(cfg, enc) ==
    IF ~ParityRepresentable(enc.parityType)
    THEN [config |-> [cfg EXCEPT !.baudRate = enc.baudRate, !.stopBits = enc.stopBits],
          applied |-> <<>>, fatal |-> "Unable to represent parity to the hardware"]
    ELSE IF ~DataBitsRepresentable(enc.dataBits)
    THEN [config |-> [cfg EXCEPT !.baudRate = enc.baudRate, !.stopBits = enc.stopBits,
                                 !.parityType = enc.parityType],
          applied |-> <<>>, fatal |-> "Unable to represent data bits to the hardware"]
    ELSE [config |-> enc, applied |-> <<enc>>, fatal |-> ""]

\* serialTask, one turn of its loop taking the Either::First arm: a request
\* is received from the channel and handled
SerialTaskReceive ==
    /\ fatal = ""
    /\ registered
    /\ receiveChannel # <<>>
    /\ LET r == handleReceiveRequest(config, Head(receiveChannel))
       IN  /\ config' = r.config
           /\ applied' = IF r.fatal = "" THEN r.applied ELSE applied
           /\ fatal' = r.fatal
    /\ receiveChannel' = Tail(receiveChannel)
    /\ UNCHANGED <<controlInterface, encoding, encodingUpdate, stateUpdate,
                   notificationEndpoint, endpointBorrow, run, endpoint,
                   pendingSetup, acceptedLog, forwardedLog, registered, lastCall, callContext>>
    /\ UNCHANGED <<poolVars, joinVars, codecVars, channelVars, endpointVars>>

BridgeStart == BridgeNew

BridgeNext ==
    \/ \E i \in InterfaceNumbers : ControlInterface(i)
    \/ \E e \in EndpointHandles : Endpoints(e)
    \/ Register
    \/ \E t \in HostIn : ControlIn(t[1], t[2])
    \/ \E t \in HostOut : ControlOut(t[1], t[2])
    \/ PollRun
    \/ HostTakesNotification
    \/ SerialTaskReceive

\* ---------------------------------------------------- usb.rs, usbTask
\* the control transfers the host may start
HostTransfers ==
    {[dir |-> "in", packet |-> t[1], len |-> t[2], data |-> <<>>] : t \in HostIn}
    \cup {[dir |-> "out", packet |-> t[1], len |-> 0, data |-> t[2]] : t \in HostOut}

\* usbTask up to RunTwo::new(usbDevice.run(), serialHandlerInner.run()): the
\* handler has its control interface and its endpoints
UsbTaskStart ==
    /\ controlInterface \in InterfaceNumbers
    /\ encoding = DefaultEncoding
    /\ encodingUpdate = <<>>
    /\ stateUpdate = <<>>
    /\ notificationEndpoint = "set"
    /\ transmitEndpoint = "set"
    /\ receiveEndpoint = "set"
    /\ endpointBorrow = 0
    /\ receiveChannel = <<>>
    /\ transmitChannel = <<>>
    /\ run = [at |-> "select", req |-> <<>>]
    /\ endpoint = [busy |-> FALSE, packet |-> <<>>]
    /\ config = DefaultEncoding
    /\ applied = <<>>
    /\ fatal = ""
    /\ pendingSetup = <<>>
    /\ acceptedLog = <<>>
    /\ forwardedLog = <<>>
    /\ registered = TRUE
    /\ lastCall = [op |-> "none", request |-> 0, addressed |-> FALSE,
                   outcome |-> "None", data |-> <<>>]
    /\ callContext = NoContext
    /\ RunTwoNew
    /\ need1 = 0
    /\ need2 = 0

\* the host starts a control transfer; the interrupt wakes the USB task
HostSends(t) ==
    /\ fatal = ""
    /\ pendingSetup = <<>>
    /\ t.dir = "out" /\ t.packet.request = SetLineCoding /\ fromData(t.data).kind = "Some"
         => Len(acceptedLog) < MaxAccepted
    /\ pendingSetup' = <<t>>
    /\ UNCHANGED <<controlInterface, encoding, encodingUpdate, stateUpdate,
                   notificationEndpoint, endpointBorrow, receiveChannel, run,
                   endpoint, config, applied, fatal, acceptedLog, forwardedLog,
                   registered, lastCall, callContext>>
    /\ UNCHANGED <<poolVars, joinVars, codecVars, channelVars, endpointVars>>

\* usbDevice.run(), one poll: it dispatches the pending control transfer to
\* the handler and returns Pending (run never returns)
transportPoll(w, t) ==
    IF t.dir = "in" THEN control_in(w, t.packet, FreshBuffer(t.len))
    ELSE control_out(w, t.packet, t.data)

\* the executor polls the woken USB task, which awaits the RunTwo: future1
\* is usbDevice.run(), future2 is serialHandlerInner.run(); neither returns
UsbTaskPoll ==
    /\ fatal = ""
    /\ pendingSetup # <<>>
    /\ LET t == pendingSetup[1]
           r == RunTwoPoll(future1, future2, FALSE, FALSE)
           w1 == IF r.polled1 THEN transportPoll(World, t) ELSE World
           w2 == IF r.polled2 THEN runPoll(w1) ELSE w1
       IN  /\ \E w \in {w2} : SetWorld(w)
           /\ callContext' = Context(World, t.len, t.data)
           /\ future1' = r.f1
           /\ future2' = r.f2
           /\ result' = r.ret
           /\ lastPoll' = [pending1 |-> future1 = "Future",
                           pending2 |-> future2 = "Future",
                           polled1 |-> r.polled1, polled2 |-> r.polled2]
    /\ pendingSetup' = <<>>
    /\ UNCHANGED <<config, applied, registered>>
    /\ UNCHANGED <<need1, need2, polls1, polls2, cycle, doneAt>>
    /\ UNCHANGED <<poolVars, codecVars, channelVars, endpointVars>>

\* the pool and the cell while another component is exercised
PoolIdle ==
    /\ subject = "none"
    /\ PoolNew(0)
    /\ handles = [h \in HandleIds |-> NoHandle]
    /\ mutGuards = [h \in HandleIds |-> 0]
    /\ sharedRefs = [h \in HandleIds |-> 0]
    /\ allocLog = <<>>
    /\ lastBorrow = "none"
    /\ CellNew
    /\ debug = FALSE
    /\ poolPanic = FALSE

PoolStart ==
    /\ subject \in {"RcPool", "UnsafeRefCell"}
    /\ \E n \in 0 .. MaxCap : PoolNew(n)
    /\ handles = [h \in HandleIds |-> NoHandle]
    /\ mutGuards = [h \in HandleIds |-> 0]
    /\ sharedRefs = [h \in HandleIds |-> 0]
    /\ allocLog = <<>>
    /\ lastBorrow = "none"
    /\ CellNew
    /\ debug \in BOOLEAN
    /\ poolPanic = FALSE

PoolInit == PoolStart /\ JoinIdle /\ BridgeIdle /\ CodecIdle

PoolNext ==
    \/ alloc
    \/ \E h \in HandleIds : clone(h)
    \/ \E h \in HandleIds : drop(h)
    \/ \E h \in HandleIds : RcBorrow(h)
    \/ \E h \in HandleIds : RcRefRelease(h)
    \/ \E h \in HandleIds : RcTryBorrowMut(h)
    \/ \E h \in HandleIds : RcBorrowMut(h)
    \/ \E h \in HandleIds : RcRefMutRelease(h)
    \/ CellBorrow
    \/ CellRefRelease
    \/ CellTryBorrowMut
    \/ CellBorrowMut
    \/ CellRefMutRelease

PoolSpec == PoolInit /\ [][PoolNext]_vars

JoinInit == JoinStart /\ PoolIdle /\ BridgeIdle /\ CodecIdle

JoinNext == JoinPoll

JoinSpec == JoinInit /\ [][JoinNext]_vars

BridgeInit == BridgeStart /\ PoolIdle /\ JoinIdle /\ CodecIdle

BridgeSpec == BridgeInit /\ [][BridgeNext]_vars

UsbTaskInit == UsbTaskStart /\ PoolIdle /\ CodecIdle

\* the UART task only waits in this specification: nothing reaches its channel
UsbTaskNext ==
    \/ \E t \in HostTransfers : HostSends(t)
    \/ UsbTaskPoll

UsbTaskSpec == UsbTaskInit /\ [][UsbTaskNext]_vars

CodecInit == CodecStart /\ PoolIdle /\ JoinIdle /\ BridgeIdle

CodecNext ==
    \/ FromData
    \/ \E len \in 0 .. MaxData : ToData(len)

CodecSpec == CodecInit /\ [][CodecNext]_vars

\* the bridge as usbTask has set it up (control interface assigned,
\* endpoints set, handler registered), with SerialHandlerInner::run polled
\* as a future of its own
ServingNext ==
    \/ \E t \in HostIn : ControlIn(t[1], t[2])
    \/ \E t \in HostOut : ControlOut(t[1], t[2])
    \/ PollRun
    \/ HostTakesNotification
    \/ SerialTaskReceive

ServingSpec == UsbTaskInit /\ [][ServingNext]_vars

\* the handler loop is polled whenever it can go on, and the UART task
\* receives whenever the channel holds a request
FairServingSpec ==
    ServingSpec /\ WF_vars(PollRun) /\ WF_vars(SerialTaskReceive)

\* the executor polls a woken task
FairUsbTaskSpec == UsbTaskSpec /\ WF_vars(UsbTaskPoll)

\* ------------------------------------------------------------ claims
\* C1: for a pool of capacity N the k-th call to alloc succeeds if and only
\* if k <= N, whatever clones and drops happen in between.
C1_AllocSucceedsIffWithinCapacity ==
    \A k \in DOMAIN allocLog : allocLog[k] <=> (k <= N)

\* C2: while a handle to a slot is live the slot's payload is valid: it has
\* not been destroyed, and no later alloc has overwritten the slot or reset
\* its reference count.
C2_LiveHandlePayloadValid ==
    \A h \in LiveIds :
        LET s == handles[h].slot
        IN  /\ pool[s].st = "valid"
            /\ pool[s].gen = handles[h].gen
            /\ pool[s].refCount >= Cardinality({g \in LiveIds : handles[g].slot = s})

\* number of live exclusive guards on slot s
SlotMuts(s) == SumOver(mutGuards, {h \in LiveIds : handles[h].slot = s})

\* number of live shared borrows on slot s
SlotRefs(s) == SumOver(sharedRefs, {h \in LiveIds : handles[h].slot = s})

\* C3: at most one exclusive borrow of a cell is outstanding at any time,
\* for the pool handle and for UnsafeRefCell.
C3_AtMostOneExclusiveBorrow ==
    /\ \A s \in Slots : SlotMuts(s) <= 1
    /\ cellMuts <= 1

\* C4: shared and exclusive borrows of one cell are never outstanding
\* together, for the pool handle and for UnsafeRefCell.
C4_SharedExclusiveDisjoint ==
    /\ \A s \in Slots : ~(SlotMuts(s) > 0 /\ SlotRefs(s) > 0)
    /\ ~(cellMuts > 0 /\ cellRefs > 0)

Max(a, b) == IF a >= b THEN a ELSE b

\* C5: RunTwo returns Ready at exactly the first poll at which both
\* sub-futures have completed, and a sub-future is not polled again after it
\* returned Ready; with the first ready at once and the second on its third
\* poll, Ready comes at poll three and the first was polled once.
C5_ReadyExactlyWhenBothDone ==
    /\ cycle > 0 => ((result = "Ready") <=> (future1 = "Done" /\ future2 = "Done"))
    /\ result = "Ready" => cycle = Max(doneAt[1], doneAt[2])
    /\ (future1 = "Done") <=> (need1 # 0 /\ polls1 >= need1)
    /\ (future2 = "Done") <=> (need2 # 0 /\ polls2 >= need2)
    /\ need1 # 0 => polls1 <= need1
    /\ need2 # 0 => polls2 <= need2
    /\ (need1 = 1 /\ need2 = 3 /\ result = "Ready") => (cycle = 3 /\ polls1 = 1)

\* C5 witness: first ready at once, second on its third poll, RunTwo Ready
C5_Witness ==
    need1 = 1 /\ need2 = 3 /\ result = "Ready" /\ cycle = 3 /\ polls1 = 1

\* C6: every poll of RunTwo polls each sub-future that has not completed
\* yet, the second one also when the first returned Pending.
C6_PendingSubFuturesPolled ==
    cycle > 0 => /\ lastPoll.pending1 => lastPoll.polled1
                 /\ lastPoll.pending2 => lastPoll.polled2

\* C7: in usbTask the handler event loop is polled although the transport
\* loop never completes, so every raised encoding-changed or
\* control-line-state signal is eventually consumed by the handler loop.
C7_SignalsEventuallyConsumed ==
    /\ (encodingUpdate # <<>>) ~> (encodingUpdate = <<>>)
    /\ (stateUpdate # <<>>) ~> (stateUpdate = <<>>)

\* the record of the most recently accepted SetLineCoding, or the default
LastAccepted ==
    IF acceptedLog = <<>> THEN DefaultEncoding ELSE acceptedLog[Len(acceptedLog)]

\* the 7 bytes of a record on the wire
Wire(enc) ==
    <<enc.baudRate % 256, (enc.baudRate \div 256) % 256,
      (enc.baudRate \div 65536) % 256, (enc.baudRate \div 16777216) % 256,
      CASE enc.stopBits = "One" -> 0 [] enc.stopBits = "OneAndHalf" -> 1
        [] enc.stopBits = "Two" -> 2,
      CASE enc.parityType = "None" -> 0 [] enc.parityType = "Odd" -> 1
        [] enc.parityType = "Even" -> 2 [] enc.parityType = "Mark" -> 3
        [] enc.parityType = "Space" -> 4,
      enc.dataBits>>

\* C8: GetLineCoding into a buffer of at least 7 bytes succeeds and returns
\* the 7-byte record of the most recently accepted SetLineCoding, or the
\* default if none was accepted.
C8_GetLineCodingReturnsLastAccepted ==
    (/\ lastCall.op = "in"
     /\ lastCall.addressed
     /\ lastCall.request = GetLineCoding
     /\ callContext.len >= 7)
    => (lastCall.outcome = "Accepted" /\ lastCall.data = Wire(LastAccepted))

RECURSIVE IsSubseq(_, _)
IsSubseq(a, b) ==
    IF a = <<>> THEN TRUE
    ELSE IF b = <<>> THEN FALSE
    ELSE IF Head(a) = Head(b) THEN IsSubseq(Tail(a), Tail(b))
    ELSE IsSubseq(a, Tail(b))

IsPrefix(a, b) == Len(a) <= Len(b) /\ SubSeq(b, 1, Len(a)) = a

\* C9 as stated: every accepted record is forwarded as a ChangeEncoding before
\* a further SetLineCoding is accepted, which is not accepted before the
\* earlier one has been forwarded and drained.
C9_ForwardedBeforeNextAccepted ==
    /\ IsPrefix(forwardedLog, acceptedLog)
    /\ Len(acceptedLog) <= Len(forwardedLog) + 1
    /\ Len(acceptedLog) > Len(forwardedLog) => receiveChannel = <<>>

\* C9 amended: every ChangeEncoding on the channel carries an accepted
\* record and the records forwarded are, in order, among those accepted; a
\* well-formed SetLineCoding is accepted also while an earlier record waits,
\* which it replaces; the latest accepted record is pending, being sent, or
\* the last one forwarded.
C9_ForwardedAreAcceptedLatestWins ==
    /\ IsSubseq(forwardedLog, acceptedLog)
    /\ \A i \in DOMAIN receiveChannel :
          \E k \in DOMAIN acceptedLog : receiveChannel[i] = acceptedLog[k]
    /\ encodingUpdate # <<>> => encodingUpdate[1] = LastAccepted
    /\ (encodingUpdate = <<>> /\ acceptedLog # <<>>) =>
          \/ run.at = "send" /\ run.req = LastAccepted
          \/ forwardedLog # <<>> /\ forwardedLog[Len(forwardedLog)] = LastAccepted
    /\ (/\ lastCall.op = "out" /\ lastCall.addressed
        /\ lastCall.request = SetLineCoding /\ callContext.wellFormed)
       => lastCall.outcome = "Accepted"

\* C9 witness: two different records were accepted, the first was replaced
\* while it waited, and the second alone was forwarded
C9_Witness ==
    /\ Len(acceptedLog) = 2
    /\ acceptedLog[1] # acceptedLog[2]
    /\ forwardedLog = <<acceptedLog[2]>>
    /\ receiveChannel = <<acceptedLog[2]>>

\* C10: a well-formed SetLineCoding, a SetControlLineState and a
\* GetLineCoding addressed to the control interface complete at once with a
\* result, whatever the channel, the handler loop and the signals are doing.
C10_ControlHandlersComplete ==
    /\ lastCall.outcome # "suspended"
    /\ (lastCall.addressed /\ lastCall.op = "out"
        /\ lastCall.request = SetLineCoding /\ callContext.wellFormed)
       => lastCall.outcome = "Accepted"
    /\ (lastCall.addressed /\ lastCall.op = "out"
        /\ lastCall.request = SetControlLineState)
       => lastCall.outcome = "Accepted"
    /\ (lastCall.addressed /\ lastCall.op = "in" /\ lastCall.request = GetLineCoding)
       => lastCall.outcome = (IF callContext.len >= 7 THEN "Accepted" ELSE "None")

\* C10 witness: a SetControlLineState was accepted while the handler loop
\* was suspended in the channel send, the slot full and a signal pending
C10_Witness ==
    /\ lastCall.op = "out"
    /\ lastCall.addressed
    /\ lastCall.request = SetControlLineState
    /\ lastCall.outcome = "Accepted"
    /\ callContext.at = "send"
    /\ callContext.full
    /\ callContext.pending

\* the 10 bytes of the SerialState notification for control interface i
SerialStateBytes(i) == <<161, 32, 0, 0, i % 256, i \div 256, 2, 0, 3, 0>>

\* C11: after a SetControlLineState is accepted on the assigned control
\* interface i the handler loop writes to the notification endpoint exactly
\* the 10 bytes A1 20 00 00 lo(i) hi(i) 02 00 03 00, one write per consumed
\* control-line-state signal, and nothing is written to it otherwise.
C11_NotificationWritten ==
    /\ [](endpoint.packet \in {<<>>, SerialStateBytes(controlInterface)})
    /\ [](run.at = "write" => run.req = SerialStateBytes(controlInterface))
    /\ (stateUpdate # <<>> /\ controlInterface # Unassigned)
         ~> (stateUpdate = <<>>
             /\ endpoint.packet = SerialStateBytes(controlInterface))

\* a request that is not for this handler: another recipient, another type,
\* or an index that is not the control interface that was assigned
NotForHandler(packet) ==
    \/ packet.recipient # "Interface"
    \/ packet.request_type # "Class"
    \/ controlInterface # Unassigned /\ packet.index # controlInterface

\* the bridge state a control request could touch
HandlerState ==
    <<controlInterface, encoding, encodingUpdate, stateUpdate,
      notificationEndpoint, endpointBorrow, receiveChannel, run, endpoint,
      config, applied, fatal, acceptedLog, forwardedLog>>

\* C12: for a request whose recipient is not interface, whose type is not
\* class, or whose index differs from the assigned control interface,
\* control_in and control_out return not handled and change nothing: no
\* signal is raised, the stored encoding is unchanged and the caller's
\* buffer is not written.
C12_UnaddressedNotHandled ==
    [][/\ \A t \in HostIn :
            (ControlIn(t[1], t[2]) /\ NotForHandler(t[1]))
            => /\ lastCall'.outcome = "None"
               /\ lastCall'.data = FreshBuffer(t[2])
               /\ UNCHANGED HandlerState
       /\ \A t \in HostOut :
            (ControlOut(t[1], t[2]) /\ NotForHandler(t[1]))
            => /\ lastCall'.outcome = "None"
               /\ UNCHANGED HandlerState]_vars

\* C12 witness: with control interface 1 assigned and no signal pending, a
\* well-formed SetLineCoding for another interface was not handled
C12_Witness ==
    /\ controlInterface = 1
    /\ lastCall.op = "out"
    /\ lastCall.request = SetLineCoding
    /\ callContext.wellFormed
    /\ ~lastCall.addressed
    /\ lastCall.outcome = "None"
    /\ encodingUpdate = <<>>
    /\ acceptedLog = <<>>

\* a SetLineCoding data stage that is malformed: shorter than 7 bytes, or
\* with a stop-bits byte outside 0..2 or a parity byte outside 0..4
Malformed(data) ==
    \/ Len(data) < 7
    \/ data[5] \notin {0, 1, 2}
    \/ data[6] \notin {0, 1, 2, 3, 4}

\* C13: a malformed SetLineCoding (buffer shorter than 7 bytes, invalid
\* stop-bits or parity byte) is rejected as not handled, with no fatal
\* error, no signal raised and the stored encoding unchanged, and the bridge
\* keeps serving later requests.
C13_MalformedRejected ==
    [][\A t \in HostOut :
          (/\ ControlOut(t[1], t[2])
           /\ controlInterface # Unassigned
           /\ ~NotForHandler(t[1])
           /\ t[1].request = SetLineCoding
           /\ Malformed(t[2]))
          => /\ lastCall'.outcome = "None"
             /\ fatal' = ""
             /\ UNCHANGED HandlerState]_vars

\* C14: for every 7-byte buffer b with a stop-bits byte in 0..2 and a
\* parity byte in 0..4, toData(fromData(b)) returns 7 and writes exactly b;
\* fromData of a longer buffer yields the record of its first 7 bytes;
\* fromData of a buffer shorter than 7 bytes fails.
C14_RoundTrip ==
    /\ (decoded # <<>> /\ Len(buffer) < 7) => decoded[1].kind = "None"
    /\ (decoded # <<>> /\ Len(buffer) >= 7 /\ ~Malformed(buffer)) =>
          /\ decoded[1].kind = "Some"
          /\ decoded[1] = fromData(SubSeq(buffer, 1, 7))
    /\ (written # <<>> /\ Len(written[1].data) >= 7 /\ ~Malformed(buffer)) =>
          /\ written[1].len = 7
          /\ SubSeq(written[1].data, 1, 7) = SubSeq(buffer, 1, 7)
          /\ \A i \in 8 .. Len(written[1].data) : written[1].data[i] = 255

\* C14 witness: the buffer 04 64 01 01 01 04 64 went through fromData and
\* toData into a buffer of 7 bytes
C14_Witness ==
    /\ buffer = <<4, 100, 1, 1, 1, 4, 100>>
    /\ written # <<>>
    /\ Len(written[1].data) = 7
    /\ written[1].data = buffer

\* C15: GetLineCoding into a buffer shorter than 7 bytes returns not
\* handled and leaves every byte of the caller's buffer and the whole bridge
\* state unchanged.
C15_ShortBufferUntouched ==
    [][\A t \in HostIn :
          (/\ ControlIn(t[1], t[2])
           /\ controlInterface # Unassigned
           /\ ~NotForHandler(t[1])
           /\ t[1].request = GetLineCoding
           /\ t[2] < 7)
          => /\ lastCall'.outcome = "None"
             /\ lastCall'.data = FreshBuffer(t[2])
             /\ UNCHANGED HandlerState]_vars

\* C15 witness: a GetLineCoding with a 6-byte buffer was answered not
\* handled while the stored encoding was 9600 8N1
C15_Witness ==
    /\ lastCall.op = "in"
    /\ lastCall.addressed
    /\ controlInterface # Unassigned
    /\ lastCall.request = GetLineCoding
    /\ callContext.len = 6
    /\ lastCall.outcome = "None"
    /\ lastCall.data = FreshBuffer(6)
    /\ encoding.baudRate = 9600

\* C16: each of the two inter-task channels holds at most one message; the
\* handler loop's send of ChangeEncoding completes only when the
\* bridge-to-UART slot is empty and otherwise the loop stays suspended, so
\* at most one change request is in flight in the channel.
C16_OneMessagePerChannel ==
    /\ [](Len(receiveChannel) <= 1 /\ Len(transmitChannel) <= 1)
    /\ [][/\ Len(forwardedLog') > Len(forwardedLog)
            => /\ receiveChannel = <<>>
               /\ receiveChannel' = <<forwardedLog'[Len(forwardedLog')]>>
               /\ Len(forwardedLog') = Len(forwardedLog) + 1
          /\ (run.at = "send" /\ receiveChannel # <<>> /\ receiveChannel' # <<>>)
            => (run' = run /\ forwardedLog' = forwardedLog)]_vars

\* C16 witness: the handler loop is suspended in the send of a second
\* ChangeEncoding while the first still occupies the slot
C16_Witness ==
    /\ run.at = "send"
    /\ Len(receiveChannel) = 1
    /\ run.req # receiveChannel[1]
    /\ forwardedLog = receiveChannel

\* C17: in no reachable state is the handler loop suspended (in the select
\* wait, the channel send or the notification endpoint write) while it
\* holds a runtime borrow guard on the stored encoding or on the
\* notification endpoint cell.  The encoding cell is borrowed only inside
\* replace and encodingToData, which return before the next await; every
\* state of the model has the loop at one of its three awaits.
C17_NoBorrowAcrossSuspension ==
    run.at \in {"select", "send", "write"} => endpointBorrow = 0

\* C18: for a live handle, clone adds one to the slot's reference count and
\* a drop takes one off, so a clone followed by a drop leaves the count
\* unchanged and does not run the payload destructor; the destructor runs
\* exactly once, at the drop that takes the count from one to zero, and the
\* count never goes below zero.
C18_CloneDropBalanced ==
    [][\A h \in HandleIds :
          /\ (clone(h) /\ ~poolPanic')
             => LET s == handles[h].slot
                IN  /\ pool'[s].refCount = pool[s].refCount + 1
                    /\ pool'[s].st = pool[s].st
          /\ drop(h)
             => LET s == handles[h].slot
                IN  /\ pool[s].st = "valid"
                    /\ pool[s].refCount >= 1
                    /\ ~poolPanic'
                    /\ pool'[s].refCount = pool[s].refCount - 1
                    /\ (pool'[s].st = "dropped") <=> (pool[s].refCount = 1)]_vars

\* C19: a class-type, interface-recipient request addressed to the assigned
\* control interface whose request code is not 0x20, 0x21 or 0x22 is
\* reported as not handled by both control_in and control_out, without a
\* fatal error and without changing bridge state.
C19_UnknownRequestNotHandled ==
    [][/\ \A t \in HostIn :
            (/\ ControlIn(t[1], t[2])
             /\ controlInterface # Unassigned
             /\ ~NotForHandler(t[1])
             /\ t[1].request \notin {32, 33, 34})
            => /\ lastCall'.outcome = "None"
               /\ fatal' = ""
               /\ UNCHANGED HandlerState
       /\ \A t \in HostOut :
            (/\ ControlOut(t[1], t[2])
             /\ controlInterface # Unassigned
             /\ ~NotForHandler(t[1])
             /\ t[1].request \notin {32, 33, 34})
            => /\ lastCall'.outcome = "None"
               /\ fatal' = ""
               /\ UNCHANGED HandlerState]_vars

\* C20: after a SetControlLineState with value v is handled the bridge's
\* latched control-line state (the value held by stateUpdate, the only
\* place the handler keeps it) equals v, and it stays v until the next
\* SetControlLineState, also after the handler loop has consumed the signal
\* and written the notification.
C20_ControlLineStateLatched ==
    [][/\ \A t \in HostOut :
            (/\ ControlOut(t[1], t[2])
             /\ controlInterface # Unassigned
             /\ ~NotForHandler(t[1])
             /\ t[1].request = SetControlLineState)
            => stateUpdate' = <<t[1].value>>
       /\ (/\ controlInterface # Unassigned
           /\ fatal' = ""
           /\ ~ \E t \in HostOut :
                 ControlOut(t[1], t[2]) /\ t[1].request = SetControlLineState)
            => stateUpdate' = stateUpdate]_vars

\* C21: if the UART task does not receive, then once the handler loop has
\* filled the bridge-to-UART slot and consumed a further encoding-changed
\* signal it stays suspended in the channel send: as long as the slot is
\* not drained it consumes no signal and writes no SerialState notification,
\* while the stored encoding already holds the unsent record.
C21_StalledPeerBlocksSender ==
    /\ []((run.at = "send" /\ receiveChannel # <<>>) => encoding = run.req)
    /\ [][(run.at = "send" /\ receiveChannel # <<>> /\ receiveChannel' = receiveChannel)
          => /\ run' = run
             /\ encoding' = encoding
             /\ encodingUpdate # <<>> => encodingUpdate' # <<>>
             /\ stateUpdate # <<>> => stateUpdate' # <<>>
             /\ endpoint'.packet = endpoint.packet
             /\ endpoint'.busy => endpoint.busy
             /\ forwardedLog' = forwardedLog]_vars

\* C21 witness: the loop is suspended in the send of 9600 8N1 behind an
\* undrained record, both signals are raised again and nothing was written
\* to the notification endpoint
C21_Witness ==
    /\ run.at = "send"
    /\ receiveChannel # <<>>
    /\ run.req # receiveChannel[1]
    /\ encoding = run.req
    /\ stateUpdate # <<>>
    /\ endpoint.packet = <<>>
    /\ applied = <<>>

\* a record the UART hardware cannot take: parity mark or space, or data
\* bits other than 7, 8 or 9
Unrepresentable(enc) ==
    \/ enc.parityType \in {"Mark", "Space"}
    \/ enc.dataBits \notin {7, 8, 9}

C23_EndpointsSetOnce ==
    [][/\ \A e \in EndpointHandles :
            Endpoints(e)
            => IF EndpointCells = <<"unset", "unset", "unset">>
               THEN EndpointCells' = <<e, e, e>> /\ fatal' = ""
               ELSE EndpointCells' = EndpointCells /\ fatal' # ""
       /\ \A i \in 1 .. 3 :
            EndpointCells[i] # "unset" => EndpointCells'[i] = EndpointCells[i]
       /\ (stateUpdate # <<>> /\ stateUpdate' = <<>> /\ notificationEndpoint = "unset")
            => fatal' # ""]_vars

\* C23 witness: a second call to endpoints with other handles ended in a
\* fatal error and the first handles are still there
C23_Witness ==
    /\ fatal = "Endpoints already initialised"
    /\ EndpointCells = <<"set", "set", "set">>

\* C24: with a w-bit counter, clone on a slot whose count is 2^w - 1 ends
\* in a fatal error, and no operation leaves execution going on with a live
\* handle whose slot count has wrapped around (upwards in clone, downwards
\* in drop).
C24_OverflowFatal ==
    [][\A h \in HandleIds :
          /\ (clone(h) /\ pool[handles[h].slot].refCount = 2 ^ CountBits - 1)
             => poolPanic'
          /\ (clone(h) /\ pool'[handles[h].slot].refCount < pool[handles[h].slot].refCount)
             => poolPanic'
          /\ (drop(h) /\ pool'[handles[h].slot].refCount > pool[handles[h].slot].refCount)
             => \/ poolPanic'
                \/ ~ \E g \in HandleIds :
                       handles'[g] # NoHandle /\ handles'[g].slot = handles[h].slot]_vars

\* the ChangeEncoding requests the UART task has received: those forwarded
\* less those still in the channel
Received == SubSeq(forwardedLog, 1, Len(forwardedLog) - Len(receiveChannel))

\* C25: the encodings of the ChangeEncoding requests the UART task receives
\* form an order-preserving subsequence of the encodings accepted by
\* SetLineCoding, each forwarded at most once; when several SetLineCoding
\* are accepted before the handler loop consumes the signal, only the most
\* recent one is stored and forwarded.
C25_ReceivedSubsequenceLatestWins ==
    /\ [](/\ IsSubseq(Received, acceptedLog)
          /\ Len(forwardedLog) <= Len(acceptedLog)
          /\ receiveChannel = SubSeq(forwardedLog, Len(Received) + 1, Len(forwardedLog)))
    /\ [][/\ SerialTaskReceive => Received' = Append(Received, Head(receiveChannel))
          /\ (encodingUpdate # <<>> /\ encodingUpdate' = <<>>)
            => /\ encoding' = acceptedLog[Len(acceptedLog)]
               /\ \/ run'.at = "send" /\ run'.req = acceptedLog[Len(acceptedLog)]
                  \/ forwardedLog' = Append(forwardedLog, acceptedLog[Len(acceptedLog)])
          /\ Len(forwardedLog') > Len(forwardedLog)
            => \/ run.at = "send" /\ forwardedLog' = Append(forwardedLog, run.req)
               \/ encodingUpdate # <<>>
                  /\ forwardedLog' = Append(forwardedLog, encodingUpdate[1])]_vars

\* C25 witness: two different records were accepted before the loop ran,
\* and the UART task received and applied the second one only
C25_Witness ==
    /\ Len(acceptedLog) = 2
    /\ acceptedLog[1] # acceptedLog[2]
    /\ Received = <<acceptedLog[2]>>
    /\ receiveChannel = <<>>
    /\ applied = <<acceptedLog[2]>>

\* the last accepted record is one the hardware can take
C26_Accepted == acceptedLog # <<>> /\ ~Unrepresentable(LastAccepted)

\* the bridge stores the last accepted record and the UART task applied it
C26_Applied == encoding = LastAccepted /\ applied = <<LastAccepted>>

C27_UnassignedHandlesNothing ==
    [][/\ \A t \in HostIn :
            (ControlIn(t[1], t[2]) /\ controlInterface = Unassigned)
            => /\ lastCall'.outcome = "None"
               /\ lastCall'.data = FreshBuffer(t[2])
               /\ UNCHANGED HandlerState
       /\ \A t \in HostOut :
            (ControlOut(t[1], t[2]) /\ controlInterface = Unassigned)
            => /\ lastCall'.outcome = "None"
               /\ UNCHANGED HandlerState]_vars

====
